---- MODULE Spec2Model ----
(***************************************************************************)
(* Sandboxed grading engine of python-skill-builder.                       *)
(*                                                                         *)
(* Spec      one grading call after another through the entry points       *)
(*           /api/grade (main.run_user_and_tests), TestRunner.run_tests,   *)
(*           TestRunner.run_test_suite and the TDD step validators,        *)
(*           with the step validator's verdict and the diagnostic probing  *)
(*           of run_user_and_tests.                                        *)
(* ConcSpec  concurrent Sandbox.execute calls sharing the process-wide     *)
(*           sys.stdout / sys.stderr.                                      *)
(* WorkflowSpec  method calls on one TDDWorkflowState.                     *)
(*                                                                         *)
(* Python sources are abstracted to records that keep what the engine      *)
(* looks at (parse result, syntax-tree node kinds, import statements) and  *)
(* what running them does (bindings, calls of __import__, raising,         *)
(* looping, the value grade() returns).                                    *)
(***************************************************************************)
EXTENDS Integers, Sequences, FiniteSets, TLC

\* ------------------------------------------------------------------ bounds
MaxCalls == 2          \* grading calls in one run of Spec
MaxElapsed == 7        \* seconds a non-terminating submission is observed
NumThreads == 2        \* concurrent Sandbox.execute calls in ConcSpec
MaxOps == 3            \* method calls on one workflow in WorkflowSpec
MaxProgressOps == 3    \* calls on one WorkflowProgress in ProgressSpec
MaxNodes == 2          \* nodes of a parsed source in MetricsSpec
MaxOperands == 3       \* operands of one boolean expression
MaxLines == 4          \* lines of a source given to calculate_duplication
NumRequests == 2       \* requests in flight for one workflow in ApiSpec
MaxRequests == 4       \* requests made for one workflow in ApiSpec

\* -------------------------------------------------------- program constants
timeout_seconds == 5   \* Sandbox.__init__ default
DefaultScore == 0      \* result.get("score", 0)
DefaultMaxScore == 100 \* result.get("max_score", 100)

None == "None"
AllSymbols == {"*"}    \* ALLOWED_IMPORTS[m] = None: every symbol of m allowed

\* The two places that hold the policy tables.
Owners == {"main", "Sandbox"}

\* ------------------------------------------------------------------- state
VARIABLES
    DISALLOWED_NODES,  \* [Owners -> set of syntax-tree node kinds]
    ALLOWED_IMPORTS,   \* [Owners -> [allowed modules -> symbol set or AllSymbols]]
    bdicts,            \* builtins mappings: object id -> [keys, import]
    nss,               \* namespaces: object id -> [builtins (object id), binds]
    calls,             \* grading calls finished so far
    pc,                \* phase of the current call
    entry,             \* entry point of the current call
    user_code,         \* name of the submission source
    tests_code,        \* name of the grader / test source
    previous_code,     \* validate_step_5: name of the step-3 source, or None
    step_result,       \* what the step validator returns
    user_ns,           \* object id of the submission namespace, or None
    test_ns,           \* object id of the grader namespace, or None
    ran,               \* phases performed by the current call, in order
    execs,             \* exec() records of the current call, in order
    gate,              \* calls of the submission's __import__ in this call
    gradeArg,          \* argument grade() was invoked with, or None
    raw,               \* source whose grade() returned a value, or None
    result,            \* what the call returns, or None
    failure,           \* failure kind of the call, or None
    reported,          \* how the failure is reported to the caller
    elapsed,           \* seconds the submission has been running
    \* ---- ConcSpec
    sys_stdout,        \* stream sys.stdout refers to
    sys_stderr,        \* stream sys.stderr refers to
    tpc,               \* [thread -> position in Sandbox.execute]
    old_stdout,        \* [thread -> redirect_stdout._old_targets top]
    old_stderr,        \* [thread -> redirect_stderr._old_targets top]
    written,           \* [stream -> [thread -> number of its print() calls written there]]
    returned,          \* [thread -> what execute returned or None]
    \* ---- WorkflowSpec
    current_step,      \* TDDWorkflowState.current_step
    step_status,       \* TDDWorkflowState.step_status: [step -> status]
    wf_ops,            \* method calls made on the workflow so far
    wf_ret,            \* the last method call and what it returned
    \* ---- ProgressSpec
    progress,          \* the WorkflowProgress object in memory
    stored,            \* {content of <workflow_id>_progress.json}, {} if none
    saved,             \* {the object as save_progress took it}, {} if none
    pr_ops,            \* method calls made on the progress so far
    pr_ret,            \* the last call: what it was and whether it raised
    \* ---- MetricsSpec
    metric,            \* the last CodeMetrics call: argument and outcome
    \* ---- ApiSpec
    wfile,             \* workflows/<workflow_id>.json
    reqs,              \* the requests being handled, one per thread
    api_ops            \* requests made so far

policyVars == <<DISALLOWED_NODES, ALLOWED_IMPORTS>>
heapVars == <<bdicts, nss>>
callVars == <<calls, pc, entry, user_code, tests_code, previous_code,
              step_result, user_ns, test_ns, ran,
              execs, gate, gradeArg, raw, result, failure, reported, elapsed>>
concVars == <<sys_stdout, sys_stderr, tpc, old_stdout, old_stderr, written,
              returned>>
wfVars == <<current_step, step_status, wf_ops, wf_ret>>
prVars == <<progress, stored, saved, pr_ops, pr_ret>>
metricVars == <<metric>>
coreVars == <<policyVars, heapVars, callVars, concVars>>
apiVars == <<wfile, reqs, api_ops>>
sideVars == <<wfVars, prVars, metricVars, apiVars>>
notWfVars == <<coreVars, prVars, metricVars, apiVars>>
notPrVars == <<coreVars, wfVars, metricVars, apiVars>>
notMetricVars == <<coreVars, wfVars, prVars, apiVars>>
notApiVars == <<coreVars, wfVars, prVars, metricVars>>
vars == <<coreVars, wfVars, prVars, metricVars, apiVars>>

\* ----------------------------------------------------------- policy tables
\* main.py:55-59 and sandbox.py:29-31
InitialDisallowedNodes == {"Global", "Nonlocal", "With", "AsyncWith"}

\* main.py:62-66 and sandbox.py:34-38
InitialAllowedImports ==
    ("functools" :> {"wraps"}) @@
    ("time" :> {"sleep", "time", "perf_counter"}) @@
    ("numpy" :> AllSymbols)

\* main.py:68-83 and sandbox.py:41-56 (representative keys; no "__import__",
\* "open", "eval" or "exec" among them)
InitialSafeBuiltins == [keys |-> {"len", "print", "getattr", "Exception"},
                        import |-> None]

TableId(owner) == owner \o ".SAFE_BUILTINS"
SAFE_BUILTINS(owner) == bdicts[TableId(owner)]

\* ----------------------------------------------------------------- sources
Import(m) == [kind |-> "import", module |-> m, names |-> {}]
ImportFrom(m, ns) == [kind |-> "from", module |-> m, names |-> ns]

\* One top-level binding of a submission as capture_execution_results sees
\* it: beh[i] is what calling it with test_inputs[i] does, attr what
\* getattr(obj, attr_name) on a class does.
Def(name, kind, beh) ==
    [name |-> name, kind |-> kind, dunder |-> FALSE, beh |-> beh, attr |-> "ok"]

\* def even_squares(nums): return [n*n for n in nums if n % 2 == 0]
EvenSquares == <<"TypeError", "empty", "list", "TypeError", "TypeError",
                 "TypeError">>

BaseUser == [parses |-> TRUE, nodes |-> {"FunctionDef", "Return"},
             imports |-> {}, dyn |-> {}, run |-> "return", binds |-> {"f"},
             exc |-> "ZeroDivisionError",
             complexity |-> 1, has_docstring |-> FALSE,
             has_type_hints |-> FALSE,
             defs |-> <<Def("f", "function", EvenSquares)>>]

\* Submission sources: what ast.parse / ast.walk see and what exec does.
UserSource ==
    [ok            |-> BaseUser,
     pass          |-> [BaseUser EXCEPT !.nodes = {"Pass"}, !.binds = {},
                                        !.defs = << >>],
     \* calculate_complexity returns 0 for a source that does not parse
     syntax_error  |-> [BaseUser EXCEPT !.parses = FALSE, !.complexity = 0],
     \* the same function with an if and a for statement added
     branchy       |-> [BaseUser EXCEPT !.nodes = {"FunctionDef", "If", "For",
                                                   "Return"},
                                        !.complexity = 3],
     \* the same function with annotations and a docstring
     documented    |-> [BaseUser EXCEPT !.has_docstring = TRUE,
                                        !.has_type_hints = TRUE],
     with_open     |-> [BaseUser EXCEPT !.nodes = {"FunctionDef", "With"}],
     global_stmt   |-> [BaseUser EXCEPT !.nodes = {"FunctionDef", "Global"}],
     nonlocal_stmt |-> [BaseUser EXCEPT !.nodes = {"FunctionDef", "Nonlocal"}],
     async_with    |-> [BaseUser EXCEPT !.nodes = {"AsyncFunctionDef",
                                                   "AsyncWith"}],
     \* a decorator is a Name / Attribute / Call entry of decorator_list
     try_lambda    |-> [BaseUser EXCEPT !.nodes = {"FunctionDef", "Try",
                                                   "ExceptHandler", "Raise",
                                                   "Lambda", "Attribute",
                                                   "Name", "Call"}],
     import_os     |-> [BaseUser EXCEPT !.imports = {Import("os")}],
     \* import functools
     import_functools |-> [BaseUser EXCEPT
                              !.imports = {Import("functools")}],
     from_wraps    |-> [BaseUser EXCEPT
                           !.imports = {ImportFrom("functools", {"wraps"})}],
     from_partial  |-> [BaseUser EXCEPT
                           !.imports = {ImportFrom("functools", {"partial"})}],
     from_os       |-> [BaseUser EXCEPT
                           !.imports = {ImportFrom("os", {"path"})}],
     from_numpy    |-> [BaseUser EXCEPT
                           !.imports = {ImportFrom("numpy", {"array"})}],
     import_dotted |-> [BaseUser EXCEPT !.imports = {Import("numpy.linalg")}],
     dyn_os        |-> [BaseUser EXCEPT
                           !.dyn = {[name |-> "os", fromlist |-> {}]}],
     dyn_os_time   |-> [BaseUser EXCEPT
                           !.dyn = {[name |-> "os", fromlist |-> {"time"}]}],
     dyn_partial   |-> [BaseUser EXCEPT
                           !.dyn = {[name |-> "functools",
                                     fromlist |-> {"partial"}]}],
     dyn_time      |-> [BaseUser EXCEPT
                           !.dyn = {[name |-> "time", fromlist |-> {"sleep"}]}],
     raises        |-> [BaseUser EXCEPT !.run = "raise", !.binds = {},
                                        !.defs = << >>],
     raises_value_error |-> [BaseUser EXCEPT !.run = "raise", !.binds = {},
                                             !.exc = "ValueError",
                                             !.defs = << >>],
     loops         |-> [BaseUser EXCEPT !.run = "loop", !.binds = {},
                                        !.defs = << >>],
     \* __all__ = [...]; def f(x): raise KeyError; class C; def h(): return 3;
     \* limit = 10
     probe_mixed   |-> [BaseUser EXCEPT
                           !.nodes = {"FunctionDef", "ClassDef", "Raise",
                                      "Return", "Assign"},
                           !.binds = {"__all__", "f", "C", "h", "limit"},
                           !.defs = <<[Def("__all__", "variable", << >>)
                                          EXCEPT !.dunder = TRUE],
                                      Def("f", "function",
                                          <<"TypeError", "KeyError", "KeyError",
                                            "KeyError", "KeyError", "KeyError">>),
                                      Def("C", "class", << >>),
                                      Def("h", "function",
                                          <<"value", "TypeError", "TypeError",
                                            "TypeError", "TypeError",
                                            "TypeError">>),
                                      Def("limit", "variable", << >>)>>],
     \* def f(*a): raise Exception.__base__("stop"); def h(): return 3
     probe_base_exception |-> [BaseUser EXCEPT
                           !.nodes = {"FunctionDef", "Raise", "Attribute"},
                           !.binds = {"f", "h"},
                           !.defs = <<Def("f", "function",
                                          <<"BaseException", "BaseException",
                                            "BaseException", "BaseException",
                                            "BaseException", "BaseException">>),
                                      Def("h", "function",
                                          <<"value", "TypeError", "TypeError",
                                            "TypeError", "TypeError",
                                            "TypeError">>)>>],
     \* class D: def __get__(self, o, t): raise ValueError; class C: attr = D()
     probe_descriptor |-> [BaseUser EXCEPT
                           !.nodes = {"FunctionDef", "ClassDef", "Raise",
                                      "Assign"},
                           !.binds = {"D", "C"},
                           !.defs = <<Def("D", "class", << >>),
                                      [Def("C", "class", << >>)
                                          EXCEPT !.attr = "ValueError"]>>]]

UserSources == DOMAIN UserSource

BaseTests == [parses |-> TRUE, test_fn |-> TRUE, asserts |-> TRUE,
              run |-> "return", grade |-> "callable", binds |-> {"grade"},
              call |-> "return", value |-> "dict",
              keys |-> {"score", "max_score", "feedback"},
              score |-> 100, max_score |-> 100, hostile |-> FALSE,
              exc |-> "AssertionError",
              expected_for |-> "f", has_expected |-> TRUE,
              test_passes |-> FALSE]

\* Grader / test sources: what exec binds and what grade(user_ns) returns.
\* keys: the keys of the dict grade() returns.
TestsSource ==
    [full          |-> BaseTests,
     partial       |-> [BaseTests EXCEPT !.score = 50],
     \* no "if '<name>' not in ns" line: the literals are filed under 'unknown'
     partial_unknown |-> [BaseTests EXCEPT !.score = 50,
                                           !.expected_for = "unknown"],
     \* no "expected = [...]" and no "if result != [...]" line
     partial_no_literals |-> [BaseTests EXCEPT !.score = 50,
                                               !.has_expected = FALSE],
     over          |-> [BaseTests EXCEPT !.score = 150],
     negative      |-> [BaseTests EXCEPT !.score = -5],
     small_max     |-> [BaseTests EXCEPT !.score = 50, !.max_score = 10],
     no_keys       |-> [BaseTests EXCEPT !.keys = {}],
     syntax_error  |-> [BaseTests EXCEPT !.parses = FALSE, !.grade = "missing",
                                         !.binds = {}],
     not_a_dict    |-> [BaseTests EXCEPT !.value = "int"],
     grade_raises  |-> [BaseTests EXCEPT !.call = "raise"],
     wrong_name    |-> [BaseTests EXCEPT !.grade = "missing",
                                         !.binds = {"wrong_name"}],
     not_callable  |-> [BaseTests EXCEPT !.grade = "not_callable"],
     no_asserts    |-> [BaseTests EXCEPT !.asserts = FALSE],
     exec_raises   |-> [BaseTests EXCEPT !.run = "raise", !.grade = "missing",
                                         !.binds = {}],
     no_test_fn    |-> [BaseTests EXCEPT !.test_fn = FALSE],
     \* def test_always_true(): assert True -- no grade; the test function,
     \* were it run against the empty submission, passes
     always_true   |-> [BaseTests EXCEPT !.grade = "missing",
                                         !.binds = {"test_always_true"},
                                         !.test_passes = TRUE],
     rewrites_policy |-> [BaseTests EXCEPT !.hostile = TRUE,
                                           !.grade = "missing",
                                           !.binds = {"test_x"}]]

TestsSources == DOMAIN TestsSource

\* Operator-authored grader content never tampers with the host.
TrustedTests == {t \in TestsSources : ~TestsSource[t].hostile}

\* ------------------------------------------------------------ entry points
Entries == {"grade", "run_tests", "suite", "step1", "step3", "step5"}

\* StepValidator.validate_step_1 / _3 / _5
StepEntries == {"step1", "step3", "step5"}

\* What workflow.get_step_code(3) can hold when step 5 is validated.
PreviousSources == {"ok", "branchy", "syntax_error"}

\* /api/grade uses the tables of main.py, everything else those of Sandbox.
Owner(e) == IF e = "grade" THEN "main" ELSE "Sandbox"

\* Who wrote the source handed over as tests_code / test_code.
\* grade_submission reads it from modules/<id>.json; validate_step takes it
\* from the request body (step 1: "code", steps 3 and 5: "test_code").
TestsAuthor(e) == IF e \in StepEntries THEN "learner" ELSE "operator"

\* validate_step_1 runs the constant "pass" as the user code.
UserAuthor(e) == IF e = "step1" THEN "operator" ELSE "learner"

\* -------------------------------------------------------------- validation
\* One import statement against the allow-list (the body of the two
\* isinstance branches of validate_source / validate_code).
ImportRejected(s, allowed) ==
    IF s.kind = "import"
    THEN s.module \notin DOMAIN allowed
    ELSE \/ s.module \notin DOMAIN allowed
         \/ /\ allowed[s.module] # AllSymbols
            /\ \E n \in s.names : n \notin allowed[s.module]

\* validate_source without the two import branches.
validate_source_imports_unchecked(code, owner) ==
    IF ~code.parses THEN "SyntaxInvalid"
    ELSE IF code.nodes \cap DISALLOWED_NODES[owner] # {} THEN "PolicyViolation"
    ELSE "ok"

\* validate_source without the check of the imported names of a
\* "from M import x" against ALLOWED_IMPORTS[M].
validate_source_names_unchecked(code, owner) ==
    IF ~code.parses THEN "SyntaxInvalid"
    ELSE IF code.nodes \cap DISALLOWED_NODES[owner] # {} THEN "PolicyViolation"
    ELSE IF \E s \in code.imports : s.module \notin DOMAIN ALLOWED_IMPORTS[owner]
         THEN "PolicyViolation"
    ELSE "ok"

\* validate_source(code) / Sandbox.validate_code(code): "ok" when the tree is
\* returned, otherwise why ValueError is raised.
validate_source(code, owner) ==
    IF ~code.parses THEN "SyntaxInvalid"
    ELSE IF code.nodes \cap DISALLOWED_NODES[owner] # {} THEN "PolicyViolation"
    ELSE IF \E s \in code.imports : ImportRejected(s, ALLOWED_IMPORTS[owner])
         THEN "PolicyViolation"
    ELSE "ok"

\* restricted_import(name, fromlist=...): TRUE when builtins.__import__ is
\* called, FALSE when ImportError is raised.
restricted_import(name, fromlist, allowed) ==
    \/ name \in DOMAIN allowed
    \/ /\ fromlist # {}
       /\ \E f \in fromlist : f \in DOMAIN allowed

\* The modules a submission holds a reference to once exec has returned:
\* "import M" binds the module M that builtins.__import__ returns, and a
\* permitted __import__(name, fromlist=...) call returns the module name.
ModulesHeld(code, made) ==
    {s.module : s \in {i \in code.imports : i.kind = "import"}}
    \cup {g.name : g \in {c \in made : c.permitted}}

\* The statement that compiles to __import__(name, ..., fromlist).
StatementOf(name, fromlist) ==
    IF fromlist = {} THEN Import(name) ELSE ImportFrom(name, fromlist)

\* --------------------------------------------------------------- namespaces
\* d = table.copy() under a fresh identity (an existing object is kept).
dict_copy(h, src, ref) == IF ref \in DOMAIN h THEN h ELSE h @@ (ref :> h[src])

\* d["__import__"] = f on the object ref refers to.
set_import(h, ref, f) ==
    [h EXCEPT ![ref] = [keys |-> @.keys \cup {"__import__"}, import |-> f]]

\* user_builtins = SAFE_BUILTINS.copy()
UserBuiltinsRef(owner) == "user_builtins"

\* test_builtins = SAFE_BUILTINS.copy()
TestBuiltinsRef(owner) == "test_builtins"

\* user_builtins = SAFE_BUILTINS.copy(); user_builtins["__import__"] = restricted_import
WithUserBuiltins(h, owner) ==
    set_import(dict_copy(h, TableId(owner), UserBuiltinsRef(owner)),
               UserBuiltinsRef(owner), "restricted")

\* test_builtins = SAFE_BUILTINS.copy(); test_builtins["__import__"] = builtins.__import__
WithTestBuiltins(h, owner) ==
    set_import(dict_copy(h, TableId(owner), TestBuiltinsRef(owner)),
               TestBuiltinsRef(owner), "unrestricted")

NewNs(b, binds, callables) ==
    [builtins |-> b, binds |-> binds, callables |-> callables]

\* test_ns = {'__builtins__': SAFE_BUILTINS}; test_ns.update(user_ns)
SuiteTestNs(h, n, owner) ==
    LET fresh == NewNs(TableId(owner), {}, {})
        u == n[user_ns]
    IN  [fresh EXCEPT !.builtins = u.builtins,
                      !.binds = @ \cup u.binds,
                      !.callables = @ \cup u.callables]

\* ------------------------------------------------------------------- result
NotReported == [label |-> None, exc |-> None]

\* What the caller is told about an exception of type exc. grade_submission
\* and run_test_suite put str(e) under "error"; run_tests prefixes
\* "SyntaxError: " for a SyntaxError and "Validation Error: " for any
\* ValueError. The exception type is the last line of the trace.
ErrorLabel(e, exc) ==
    IF exc = "BaseException" THEN "unhandled"
    ELSE IF e \in {"grade", "suite"} THEN "error"
    ELSE IF exc = "SyntaxError" THEN "SyntaxError"
    ELSE IF exc = "ValueError" THEN "Validation Error"
    ELSE "error"

\* The dict a step validator starts from: valid False, no errors.
NoStepResult == [returned |-> FALSE, valid |-> FALSE, test_fails |-> FALSE,
                 improved |-> FALSE, errors |-> {}]

\* return result, with the error appended just before
Rejected(error) == [NoStepResult EXCEPT !.returned = TRUE, !.errors = {error}]

\* CodeMetrics.get_metrics_summary(code)
get_metrics_summary(code) ==
    [complexity |-> code.complexity, has_docstring |-> code.has_docstring,
     has_type_hints |-> code.has_type_hints]

\* results = {"functions": {}, "classes": {}, "variables": {}, ...}
NoExecutionResults == [functions |-> [n \in {} |-> 0], classes |-> {},
                       variables |-> {}, escaped |-> None]

NoResult == [returned |-> FALSE, success |-> FALSE, score |-> 0,
             max_score |-> 0, scanned |-> FALSE,
             execution_results |-> NoExecutionResults]

\* TestRunner.run_tests: the dict built before the try block.
RunnerResult == [returned |-> TRUE, success |-> FALSE, score |-> DefaultScore,
                 max_score |-> DefaultMaxScore, scanned |-> FALSE,
                 execution_results |-> NoExecutionResults]

\* int(result.get("score", 0))
RawScore(t) == IF "score" \in t.keys THEN t.score ELSE DefaultScore

\* int(result.get("max_score", 100))
RawMaxScore(t) == IF "max_score" \in t.keys THEN t.max_score ELSE DefaultMaxScore

\* score = int(result.get("score", 0))
NormalizedScore(t) == RawScore(t)

PerCallObjects == {"user_builtins", "test_builtins", "user_ns", "test_ns"}

Restrict(f, S) == [x \in S |-> f[x]]

\* -------------------------------------------------------------------- Init
InitPolicy ==
    /\ DISALLOWED_NODES = [o \in Owners |-> InitialDisallowedNodes]
    /\ ALLOWED_IMPORTS = [o \in Owners |-> InitialAllowedImports]
    /\ bdicts = [id \in {TableId(o) : o \in Owners} |-> InitialSafeBuiltins]
    /\ nss = << >>

InitCall ==
    /\ calls = 0
    /\ pc = "Idle"
    /\ entry = None
    /\ user_code = None
    /\ tests_code = None
    /\ previous_code = None
    /\ step_result = NoStepResult
    /\ user_ns = None
    /\ test_ns = None
    /\ ran = << >>
    /\ execs = << >>
    /\ gate = {}
    /\ gradeArg = None
    /\ raw = None
    /\ result = NoResult
    /\ failure = None
    /\ reported = NotReported
    /\ elapsed = 0

InRan(phase) == \E i \in 1..Len(ran) : ran[i] = phase

\* An exception leaves the call. run_user_and_tests lets it propagate (the
\* caller gets no result); TestRunner.run_tests and run_test_suite catch it
\* and return their result dict, with 'success' as it was when it was raised.
Fail(kind, exc, success) ==
    /\ pc' = "Failed"
    /\ failure' = kind
    /\ reported' = [label |-> ErrorLabel(entry, exc), exc |-> exc]
    /\ result' = IF entry = "grade" THEN NoResult
                 ELSE [RunnerResult EXCEPT !.success = success]

\* ------------------------------------------------------------------ actions
\* A request arrives: /api/grade, TestRunner.run_tests, run_test_suite, or
\* validate-step for step 1, 3 or 5.
Start(e, u, t, p) ==
    /\ pc = "Idle"
    /\ calls < MaxCalls
    /\ u \in (IF e = "step1" THEN {"pass"} ELSE UserSources)
    /\ t \in (IF TestsAuthor(e) = "operator" THEN TrustedTests ELSE TestsSources)
    /\ p \in (IF e = "step5" THEN PreviousSources ELSE {None})
    /\ entry' = e
    /\ user_code' = u
    /\ tests_code' = t
    /\ previous_code' = p
    /\ pc' = IF e \in StepEntries THEN "Precheck" ELSE "Validating"
    /\ UNCHANGED <<policyVars, heapVars, concVars, sideVars, calls, step_result, user_ns,
                   test_ns, ran, execs, gate, gradeArg, raw, result, failure,
                   reported, elapsed>>

\* StepValidator.validate_step_1 / _3 / _5 before run_tests is called:
\* ast.parse, then (step 1) a test_ function and an assert must be present;
\* the first check that fails returns the result with its error.
Precheck ==
    /\ pc = "Precheck"
    /\ LET t == TestsSource[tests_code]
           u == UserSource[user_code]
           error == IF entry = "step1"
                    THEN IF ~t.parses THEN "Syntax error"
                         ELSE IF ~t.test_fn THEN "No test function found"
                         ELSE IF ~t.asserts THEN "No assertions found"
                         ELSE None
                    ELSE IF ~u.parses THEN "Syntax error" ELSE None
       IN  IF error = None
           THEN /\ pc' = "Validating"
                /\ UNCHANGED <<failure, result, reported, step_result>>
           ELSE /\ pc' = "Failed"
                /\ failure' = "StepRejected"
                /\ step_result' = Rejected(error)
                /\ UNCHANGED <<result, reported>>
    /\ UNCHANGED <<policyVars, heapVars, concVars, sideVars, calls, entry, user_code,
                   previous_code, tests_code, user_ns, test_ns, ran, execs,
                   gate, gradeArg, raw, elapsed>>

\* validate_source(user_code) / self.validate_code(code)
Validate ==
    /\ pc = "Validating"
    /\ ran' = Append(ran, "Validating")
    /\ LET verdict == validate_source(UserSource[user_code], Owner(entry))
       IN  IF verdict = "ok"
           THEN /\ pc' = "ExecutingSubmission"
                /\ UNCHANGED <<failure, result, reported>>
           ELSE Fail(verdict, "ValueError", FALSE)
    /\ UNCHANGED <<policyVars, heapVars, concVars, sideVars, calls, entry, user_code,
                   previous_code, step_result,
                   tests_code, user_ns, test_ns, execs, gate, gradeArg, raw,
                   elapsed>>

ExecRecord(source, author, ns, h, n) ==
    [source |-> source, author |-> author, ns |-> ns,
     import |-> h[n[ns].builtins].import,
     validated |-> (source = "user" /\ InRan("Validating"))]

\* The namespaces are built and exec(compile(user_code, ...), user_ns, user_ns)
\* is entered. run_user_and_tests builds both namespaces here, Sandbox.execute
\* only the submission's.
BeginSubmission ==
    /\ pc = "ExecutingSubmission"
    /\ execs = << >>
    /\ LET o == Owner(entry)
           h == IF entry = "grade"
                THEN WithTestBuiltins(WithUserBuiltins(bdicts, o), o)
                ELSE WithUserBuiltins(bdicts, o)
           n == IF entry = "grade"
                THEN nss @@ ("user_ns" :> NewNs(UserBuiltinsRef(o), {"__source__"}, {}))
                         @@ ("test_ns" :> NewNs(TestBuiltinsRef(o), {"inspect"}, {}))
                ELSE nss @@ ("user_ns" :> NewNs(UserBuiltinsRef(o), {}, {}))
       IN  /\ bdicts' = h
           /\ nss' = n
           /\ execs' = Append(execs, ExecRecord("user", UserAuthor(entry),
                                                "user_ns", h, n))
    /\ user_ns' = "user_ns"
    /\ test_ns' = IF entry = "grade" THEN "test_ns" ELSE test_ns
    /\ ran' = Append(ran, "ExecutingSubmission")
    /\ UNCHANGED <<policyVars, concVars, sideVars, calls, pc, entry, user_code,
                   previous_code, step_result, tests_code,
                   gate, gradeArg, raw, result, failure, reported, elapsed>>

\* The submission runs without returning; nothing in execute() or
\* run_user_and_tests looks at the clock.
Tick ==
    /\ pc = "ExecutingSubmission"
    /\ execs # << >>
    /\ UserSource[user_code].run = "loop"
    /\ elapsed < MaxElapsed
    /\ elapsed' = elapsed + 1
    /\ UNCHANGED <<policyVars, heapVars, concVars, sideVars, calls, pc, entry, user_code,
                   previous_code, step_result,
                   tests_code, user_ns, test_ns, ran, execs, gate, gradeArg,
                   raw, result, failure, reported>>

\* exec of the submission returns or raises. Its __import__ calls go through
\* the gate installed in its __builtins__; a refused one raises ImportError.
EndSubmission ==
    /\ pc = "ExecutingSubmission"
    /\ execs # << >>
    /\ LET u == UserSource[user_code]
           allowed == ALLOWED_IMPORTS[Owner(entry)]
           made == {[name |-> d.name, fromlist |-> d.fromlist,
                     permitted |-> restricted_import(d.name, d.fromlist, allowed)]
                    : d \in u.dyn}
       IN  /\ u.run # "loop"
           /\ gate' = made
           /\ IF u.run = "raise" \/ \E g \in made : ~g.permitted
              THEN /\ Fail("ExecutionError",
                           IF u.run = "raise" THEN u.exc ELSE "ImportError",
                           FALSE)
                   /\ UNCHANGED nss
              ELSE /\ pc' = "ExecutingGrader"
                   /\ nss' = [nss EXCEPT ![user_ns].binds = @ \cup u.binds,
                                         ![user_ns].callables = @ \cup u.binds]
                   /\ UNCHANGED <<failure, result, reported>>
    /\ UNCHANGED <<policyVars, bdicts, concVars, sideVars, calls, entry, user_code,
                   previous_code, step_result,
                   tests_code, user_ns, test_ns, ran, execs, gradeArg, raw,
                   elapsed>>

\* What a source running with the unrestricted builtins.__import__ can do to
\* the host: import the module holding the allow-list and add to it.
HostWrite(allowed) == allowed @@ ("os" :> AllSymbols)

\* exec(compile(tests_code, "<tests>", "exec"), test_ns, test_ns); in
\* run_test_suite, one assertion in a namespace updated from user_ns.
ExecGrader ==
    /\ pc = "ExecutingGrader"
    /\ ran' = Append(ran, "ExecutingGrader")
    /\ LET o == Owner(entry)
           t == TestsSource[tests_code]
           h == IF entry = "suite" THEN bdicts ELSE WithTestBuiltins(bdicts, o)
           n == IF entry = "suite"
                THEN nss @@ ("test_ns" :> SuiteTestNs(bdicts, nss, o))
                ELSE IF "test_ns" \in DOMAIN nss THEN nss
                ELSE nss @@ ("test_ns" :> NewNs(TestBuiltinsRef(o), {"inspect"}, {}))
           rec == ExecRecord("tests", TestsAuthor(entry), "test_ns", h, n)
           bound == [n EXCEPT !["test_ns"].binds = @ \cup t.binds,
                              !["test_ns"].callables = @ \cup
                                  (IF t.grade = "callable" THEN t.binds
                                   ELSE t.binds \ {"grade"})]
       IN  /\ bdicts' = h
           /\ test_ns' = "test_ns"
           /\ IF ~t.parses
              THEN /\ execs' = execs
                   /\ nss' = n
                   /\ UNCHANGED policyVars
                   /\ IF entry = "suite"
                      THEN /\ pc' = "Done"
                           /\ result' = [NoResult EXCEPT !.returned = TRUE,
                                                         !.success = TRUE]
                           /\ UNCHANGED <<failure, reported>>
                      ELSE Fail("ExecutionError", "SyntaxError", FALSE)
              ELSE /\ execs' = Append(execs, rec)
                   /\ ALLOWED_IMPORTS' =
                          IF t.hostile /\ rec.import = "unrestricted"
                          THEN [ALLOWED_IMPORTS EXCEPT ![o] = HostWrite(@)]
                          ELSE ALLOWED_IMPORTS
                   /\ UNCHANGED DISALLOWED_NODES
                   /\ nss' = IF t.run = "raise" THEN n ELSE bound
                   /\ IF entry = "suite"
                      THEN /\ pc' = "Done"
                           /\ result' = [NoResult EXCEPT !.returned = TRUE,
                                                         !.success = TRUE]
                           /\ UNCHANGED <<failure, reported>>
                      ELSE IF t.run = "raise"
                      THEN Fail("ExecutionError", t.exc, FALSE)
                      ELSE /\ pc' = "CheckingEntrypoint"
                           /\ UNCHANGED <<failure, result, reported>>
    /\ UNCHANGED <<concVars, sideVars, calls, entry, user_code,
                   previous_code, step_result, tests_code, user_ns, gate,
                   gradeArg, raw, elapsed>>

\* The entrypoint check left out: grade is looked up and called directly.
CheckEntrypoint_Skipped ==
    /\ pc = "CheckingEntrypoint"
    /\ pc' = "Invoking"
    /\ UNCHANGED <<policyVars, heapVars, concVars, sideVars, calls, entry, user_code,
                   previous_code, step_result,
                   tests_code, user_ns, test_ns, ran, execs, gate, gradeArg,
                   raw, result, failure, reported, elapsed>>

\* The entrypoint check without "or not callable(test_ns['grade'])".
CheckEntrypoint_BindingOnly ==
    /\ pc = "CheckingEntrypoint"
    /\ ran' = Append(ran, "CheckingEntrypoint")
    /\ IF "grade" \notin nss[test_ns].binds
       THEN Fail("ContractViolation", "RuntimeError", FALSE)
       ELSE /\ pc' = "Invoking"
            /\ UNCHANGED <<failure, result, reported>>
    /\ UNCHANGED <<policyVars, heapVars, concVars, sideVars, calls, entry, user_code,
                   previous_code, step_result,
                   tests_code, user_ns, test_ns, execs, gate, gradeArg, raw,
                   elapsed>>

\* if "grade" not in test_ns or not callable(test_ns["grade"]): raise RuntimeError
CheckEntrypoint ==
    /\ pc = "CheckingEntrypoint"
    /\ ran' = Append(ran, "CheckingEntrypoint")
    /\ IF "grade" \notin nss[test_ns].binds \/ "grade" \notin nss[test_ns].callables
       THEN Fail("ContractViolation", "RuntimeError", FALSE)
       ELSE /\ pc' = "Invoking"
            /\ UNCHANGED <<failure, result, reported>>
    /\ UNCHANGED <<policyVars, heapVars, concVars, sideVars, calls, entry, user_code,
                   previous_code, step_result,
                   tests_code, user_ns, test_ns, execs, gate, gradeArg, raw,
                   elapsed>>

\* The argument of test_ns["grade"](user_ns)
GradeArgument == user_ns

\* result = test_ns["grade"](user_ns)
Invoke ==
    /\ pc = "Invoking"
    /\ ran' = Append(ran, "Invoking")
    /\ gradeArg' = GradeArgument
    /\ IF TestsSource[tests_code].call = "raise"
       THEN /\ Fail("ExecutionError", TestsSource[tests_code].exc, FALSE)
            /\ UNCHANGED raw
       ELSE /\ pc' = "Normalizing"
            /\ raw' = tests_code
            /\ UNCHANGED <<failure, result, reported>>
    /\ UNCHANGED <<policyVars, heapVars, concVars, sideVars, calls, entry, user_code,
                   previous_code, step_result,
                   tests_code, user_ns, test_ns, execs, gate, elapsed>>

\* score = int(result.get("score", 0)); max_score = int(result.get("max_score", 100)).
\* run_tests has already set result['success'] = True when .get fails.
Normalize ==
    /\ pc = "Normalizing"
    /\ ran' = Append(ran, "Normalizing")
    /\ LET t == TestsSource[raw]
       IN  IF t.value # "dict"
           THEN Fail("ExecutionError", "AttributeError", TRUE)
           ELSE /\ result' = [returned |-> entry # "grade",
                              success |-> TRUE,
                              score |-> NormalizedScore(t),
                              max_score |-> RawMaxScore(t),
                              scanned |-> FALSE,
                              execution_results |-> NoExecutionResults]
                /\ pc' = IF entry = "grade" THEN "Enriching" ELSE "Done"
                /\ UNCHANGED <<failure, reported>>
    /\ UNCHANGED <<policyVars, heapVars, concVars, sideVars, calls, entry, user_code,
                   previous_code, step_result,
                   tests_code, user_ns, test_ns, execs, gate, gradeArg, raw,
                   elapsed>>

\* extract_expected_results(tests_code): the names the extracted literals are
\* filed under (the first "if '<name>' not in ns" match, or 'unknown').
extract_expected_results(t) == IF t.has_expected THEN {t.expected_for} ELSE {}

\* The scan made whenever score does not exceed max_score.
ExpectedResults_NotAbove(score, max_score, t) ==
    IF score <= max_score
    THEN [scanned |-> TRUE, names |-> extract_expected_results(t)]
    ELSE [scanned |-> FALSE, names |-> {}]

\* expected_results = {}; if score < max_score: expected_results = extract_...
\* scanned: the grader source was searched; names: the keys of the dict.
ExpectedResults(score, max_score, t) ==
    IF score < max_score
    THEN [scanned |-> TRUE, names |-> extract_expected_results(t)]
    ELSE [scanned |-> FALSE, names |-> {}]

\* test_inputs of capture_execution_results, in list order.
test_inputs == <<"()", "([],)", "([1, 2, 3, 4, 5],)", "('test',)", "(5,)",
                "(0,)">>

\* What the two except clauses of the probing loop catch:
\* (TypeError, ValueError, AttributeError) and Exception.
CaughtByProbe == {"TypeError", "ValueError", "AttributeError", "KeyError"}

\* func_info before the loop: no call made, nothing recorded.
NoInfo == [invoked |-> << >>, return_input |-> 0, escaped |-> None,
           expected_results |-> FALSE]

\* for test_input in test_inputs: try: return_value = obj(*test_input) ...
\* invoked: the inputs called, in order; return_input: the input whose
\* return value and arguments func_info holds (0: none).
RECURSIVE ProbeInputs(_, _, _)
ProbeInputs(beh, i, info) ==
    IF i > Len(test_inputs) THEN info
    ELSE LET called == [info EXCEPT !.invoked = Append(@, i)]
         IN  IF beh[i] \in {"list", "value"}
             THEN [called EXCEPT !.return_input = i]
             ELSE IF beh[i] = "empty"
             THEN ProbeInputs(beh, i + 1, [called EXCEPT !.return_input = i])
             ELSE IF beh[i] \in CaughtByProbe
             THEN ProbeInputs(beh, i + 1, called)
             ELSE [called EXCEPT !.escaped = beh[i]]

\* for name, obj in user_ns.items(): ... from item i on; an exception that
\* is not caught leaves the loop.
RECURSIVE CaptureFrom(_, _, _, _)
CaptureFrom(defs, expected_results, i, results) ==
    IF i > Len(defs) THEN results
    ELSE LET d == defs[i]
             info == ProbeInputs(d.beh, 1, NoInfo)
         IN  IF d.dunder
             THEN CaptureFrom(defs, expected_results, i + 1, results)
             ELSE IF d.kind = "function"
             THEN IF info.escaped # None
                  THEN [results EXCEPT !.escaped = info.escaped]
                  ELSE CaptureFrom(defs, expected_results, i + 1,
                         [results EXCEPT !.functions = @ @@ (d.name :>
                             [info EXCEPT !.expected_results =
                                              d.name \in expected_results])])
             ELSE IF d.kind = "class"
             THEN IF d.attr # "ok"
                  THEN [results EXCEPT !.escaped = d.attr]
                  ELSE CaptureFrom(defs, expected_results, i + 1,
                         [results EXCEPT !.classes = @ \cup {d.name}])
             ELSE CaptureFrom(defs, expected_results, i + 1,
                         [results EXCEPT !.variables = @ \cup {d.name}])

capture_execution_results(defs, expected_results) ==
    CaptureFrom(defs, expected_results, 1, NoExecutionResults)

\* run_user_and_tests: expected results are extracted if score < max_score,
\* execution results are captured, the dict is returned.
Enrich ==
    /\ pc = "Enriching"
    /\ ran' = Append(ran, "Enriching")
    /\ LET expected_results == ExpectedResults(result.score, result.max_score,
                                               TestsSource[tests_code])
           execution_results ==
               capture_execution_results(UserSource[user_code].defs,
                                         expected_results.names)
       IN  IF execution_results.escaped # None
           THEN Fail("ExecutionError", execution_results.escaped, FALSE)
           ELSE /\ result' = [result EXCEPT
                                 !.returned = TRUE,
                                 !.scanned = expected_results.scanned,
                                 !.execution_results = execution_results]
                /\ pc' = "Done"
                /\ UNCHANGED <<failure, reported>>
    /\ UNCHANGED <<policyVars, heapVars, concVars, sideVars, calls, entry, user_code,
                   previous_code, step_result,
                   tests_code, user_ns, test_ns, execs, gate, gradeArg, raw,
                   elapsed>>

\* The step validator looks at test_result.get("success") and returns.
\* Step 1: success means the test passed against the empty submission.
\* Step 3: valid exactly when success. Step 5: not success is an error;
\* otherwise improved is computed from the metrics and valid is set.
StepReturn ==
    /\ pc \in {"Done", "Failed"}
    /\ entry \in StepEntries
    /\ ~step_result.returned
    /\ LET returns == [NoStepResult EXCEPT !.returned = TRUE]
           previous_metrics ==
               get_metrics_summary(UserSource[IF entry = "step5"
                                              THEN previous_code ELSE user_code])
           refactored_metrics == get_metrics_summary(UserSource[user_code])
           improved ==
               \/ refactored_metrics.complexity <= previous_metrics.complexity
               \/ refactored_metrics.has_docstring
               \/ refactored_metrics.has_type_hints
       IN  step_result' =
               IF entry = "step1"
               THEN IF result.success
                    THEN Rejected("Test passes with empty code")
                    ELSE [returns EXCEPT !.test_fails = TRUE, !.valid = TRUE]
               ELSE IF entry = "step3"
               THEN IF result.success
                    THEN [returns EXCEPT !.valid = TRUE]
                    ELSE Rejected("Test failed")
               ELSE IF ~result.success
                    THEN Rejected("Test failed after refactoring")
                    ELSE [returns EXCEPT !.improved = improved, !.valid = TRUE]
    /\ UNCHANGED <<policyVars, heapVars, concVars, sideVars, calls, pc, entry, user_code,
                   previous_code, tests_code, user_ns, test_ns, ran, execs,
                   gate, gradeArg, raw, result, failure, reported, elapsed>>

\* The call is over; its namespaces are dropped.
Return ==
    /\ pc \in {"Done", "Failed"}
    /\ entry \in StepEntries => step_result.returned
    /\ calls' = calls + 1
    /\ pc' = "Idle"
    /\ entry' = None
    /\ user_code' = None
    /\ tests_code' = None
    /\ previous_code' = None
    /\ step_result' = NoStepResult
    /\ user_ns' = None
    /\ test_ns' = None
    /\ ran' = << >>
    /\ execs' = << >>
    /\ gate' = {}
    /\ gradeArg' = None
    /\ raw' = None
    /\ result' = NoResult
    /\ failure' = None
    /\ reported' = NotReported
    /\ elapsed' = 0
    /\ bdicts' = Restrict(bdicts, DOMAIN bdicts \ PerCallObjects)
    /\ nss' = << >>
    /\ UNCHANGED <<policyVars, concVars, sideVars>>

\* ------------------------------------------- concurrent Sandbox.execute calls
Threads == 1..NumThreads

Console(chan) == [kind |-> "console", chan |-> chan, owner |-> 0]
Capture(chan, t) == [kind |-> "capture", chan |-> chan, owner |-> t]
NoStream == [kind |-> "none", chan |-> "none", owner |-> 0]
Streams == {Console(c) : c \in {"out", "err"}} \cup
           {Capture(c, t) : c \in {"out", "err"}, t \in Threads}

Nothing == [t \in Threads |-> 0]

NotReturned == [done |-> FALSE, raised |-> FALSE, stdout |-> Nothing,
                stderr |-> Nothing]

InitConc ==
    /\ sys_stdout = Console("out")
    /\ sys_stderr = Console("err")
    /\ tpc = [t \in Threads |-> "start"]
    /\ old_stdout = [t \in Threads |-> NoStream]
    /\ old_stderr = [t \in Threads |-> NoStream]
    /\ written = [s \in Streams |-> Nothing]
    /\ returned = [t \in Threads |-> NotReturned]

\* range(1, 7): the steps of the TDD cycle
NumSteps == 6
Steps == 1..NumSteps

\* step_status[i] as TDDWorkflowState.__init__ builds it
InitialStatus(i) ==
    [completed |-> FALSE, locked |-> i > 1, code |-> "",
     validation_result |-> None, attempts |-> 0]

NoReturn == [op |-> None, arg |-> 0, value |-> FALSE]

\* TDDWorkflowState(workshop_id)
InitWorkflow ==
    /\ current_step = 1
    /\ step_status = [i \in Steps |-> InitialStatus(i)]
    /\ wf_ops = 0
    /\ wf_ret = NoReturn

\* ------------------------------------------------------- WorkflowProgress
\* A dict key of Python: the int i, or the string of its digits str(i).
IntKey(i) == [type |-> "int", value |-> i]
StrKey(i) == [type |-> "str", value |-> i]

\* d[k] = v of a Python dict: replaces the entry, or adds the key.
DictSet(d, k, v) == [x \in DOMAIN d \cup {k} |-> IF x = k THEN v ELSE d[x]]

\* WorkflowProgress.__init__
NewProgress ==
    [current_step      |-> 1,
     steps_completed   |-> <<>>,
     code_per_step     |-> [k \in {IntKey(i) : i \in Steps} |-> ""],
     validation_results |-> <<>>,
     hints_used        |-> [k \in {IntKey(i) : i \in Steps} |-> 0],
     attempts_per_step |-> [k \in {IntKey(i) : i \in Steps} |-> 0]]

InList(x, list) == \E i \in 1..Len(list) : list[i] = x

\* WorkflowProgress.mark_step_complete(step_num, validation_result): the
\* object it leaves behind and whether it raised KeyError. The append and
\* the validation result are stored before attempts_per_step is indexed.
WorkflowProgress_mark_step_complete(self, step_num, validation_result) ==
    LET appended == IF InList(step_num, self.steps_completed)
                    THEN self.steps_completed
                    ELSE Append(self.steps_completed, step_num)
        recorded == [self EXCEPT
                        !.steps_completed = appended,
                        !.validation_results =
                            DictSet(self.validation_results, IntKey(step_num),
                                    validation_result)]
    IN  IF IntKey(step_num) \in DOMAIN self.attempts_per_step
        THEN [self |-> [recorded EXCEPT
                           !.attempts_per_step[IntKey(step_num)] = @ + 1],
              raised |-> FALSE]
        ELSE [self |-> recorded, raised |-> TRUE]

\* WorkflowProgress.set_step_code(step_num, code)
WorkflowProgress_set_step_code(self, step_num, code) ==
    IF 1 <= step_num /\ step_num <= NumSteps
    THEN [self |-> [self EXCEPT !.code_per_step =
                       DictSet(self.code_per_step, IntKey(step_num), code)],
          raised |-> FALSE]
    ELSE [self |-> self, raised |-> FALSE]

\* WorkflowProgress.increment_hint_usage(step_num)
WorkflowProgress_increment_hint_usage(self, step_num) ==
    IF 1 <= step_num /\ step_num <= NumSteps
    THEN IF IntKey(step_num) \in DOMAIN self.hints_used
         THEN [self |-> [self EXCEPT !.hints_used[IntKey(step_num)] = @ + 1],
               raised |-> FALSE]
         ELSE [self |-> self, raised |-> TRUE]
    ELSE [self |-> self, raised |-> FALSE]

\* WorkflowProgress.is_complete
is_complete(self) == Len(self.steps_completed) = NumSteps

\* WorkflowProgress.to_dict: the fields, the dicts as they are.
WorkflowProgress_to_dict(self) == self

\* WorkflowProgress.from_dict: every field assigned from data as it is,
\* no key of a dict converted.
WorkflowProgress_from_dict(data) == data

\* json.dump followed by json.load of one dict: every int key comes back as
\* the string of its digits; of two keys with the same digits the one
\* written last (the int key, added after a load) is kept.
json_dict(d) ==
    [k \in {StrKey(x.value) : x \in DOMAIN d} |->
        IF IntKey(k.value) \in DOMAIN d THEN d[IntKey(k.value)] ELSE d[k]]

\* json.dump followed by json.load of the progress dict: lists of ints and
\* scalars come back equal, dicts through json_dict.
json_roundtrip(data) ==
    [data EXCEPT !.code_per_step = json_dict(@),
                 !.validation_results = json_dict(@),
                 !.hints_used = json_dict(@),
                 !.attempts_per_step = json_dict(@)]

NoProgressReturn == [op |-> None, arg |-> 0, raised |-> FALSE, reloaded |-> FALSE]

InitProgress ==
    /\ progress = NewProgress
    /\ stored = {}
    /\ saved = {}
    /\ pr_ops = 0
    /\ pr_ret = NoProgressReturn

\* ------------------------------------------------------ workflow endpoints
\* The part of a TDDWorkflowState that is stored: current_step and
\* step_status. NewWorkflow is TDDWorkflowState.__init__.
NewWorkflow == [current_step |-> 1,
                step_status |-> [i \in Steps |-> InitialStatus(i)]]

NoWorkflow == [current_step |-> 0, step_status |-> << >>]

\* TDDWorkflowState.to_dict written by json.dump: the int keys of
\* step_status become strings.
workflow_to_json(state) ==
    [current_step |-> state.current_step,
     step_status |-> [k \in {StrKey(i) : i \in DOMAIN state.step_status}
                         |-> state.step_status[k.value]]]

\* TDDWorkflowState.from_dict: {int(k): v for k, v in step_status.items()}.
workflow_from_dict(data) ==
    [current_step |-> data.current_step,
     step_status |-> [i \in {k.value : k \in DOMAIN data.step_status}
                         |-> data.step_status[StrKey(i)]]]

\* TDDWorkflowState.set_step_code on a loaded workflow.
with_step_code(workflow, step_num, code) ==
    IF step_num \in DOMAIN workflow.step_status
    THEN [workflow EXCEPT !.step_status[step_num].code = code]
    ELSE workflow

\* TDDWorkflowState.mark_step_complete on a loaded workflow.
with_step_complete(workflow, step_num, validation_result) ==
    IF step_num \notin DOMAIN workflow.step_status
    THEN workflow
    ELSE [workflow EXCEPT
             !.step_status[step_num].completed = TRUE,
             !.step_status[step_num].validation_result = validation_result,
             !.step_status[step_num].attempts = @ + 1]

\* TDDWorkflowState.advance_to_next_step on a loaded workflow, after
\* can_advance_to_next_step has allowed it.
with_advance(workflow) ==
    [workflow EXCEPT !.current_step = @ + 1,
                     !.step_status[workflow.current_step + 1].locked = FALSE]

\* The steps validate_step has a validator for; every other step value
\* is answered "Invalid step".
ValidatedSteps == {1, 3, 5}

Requests == 1..NumRequests

IdleRequest == [pc |-> "idle", kind |-> None, arg |-> 0, solved |-> FALSE,
                base |-> NoWorkflow, local |-> NoWorkflow, status |-> 0]

InitApi ==
    /\ wfile = [exists |-> FALSE, writers |-> 0,
                data |-> workflow_to_json(NoWorkflow)]
    /\ reqs = [r \in Requests |-> IdleRequest]
    /\ api_ops = 0

\* No CodeMetrics call made yet.
NoMetric == [fn |-> None, raised |-> None]

InitMetrics == metric = NoMetric

Init == InitPolicy /\ InitCall /\ InitConc /\ InitWorkflow /\ InitProgress
        /\ InitMetrics /\ InitApi

Next ==
    \/ /\ pc = "Idle"
       /\ \E e \in Entries, u \in UserSources, t \in TestsSources,
             p \in PreviousSources \cup {None} : Start(e, u, t, p)
    \/ Precheck
    \/ Validate
    \/ BeginSubmission
    \/ Tick
    \/ EndSubmission
    \/ ExecGrader
    \/ CheckEntrypoint
    \/ Invoke
    \/ Normalize
    \/ Enrich
    \/ StepReturn
    \/ Return

Spec == Init /\ [][Next]_vars

\* Bound on the print() calls of one executed program.
MaxPrints == 1

\* How many times thread t has printed, to whatever stream.
RECURSIVE SumPrinted(_, _)
SumPrinted(S, t) ==
    IF S = {} THEN 0
    ELSE LET s == CHOOSE x \in S : TRUE
         IN  written[s][t] + SumPrinted(S \ {s}, t)

Printed(t) == SumPrinted(Streams, t)

\* redirect_stdout(stdout_capture).__enter__():
\* the current sys.stdout is remembered and replaced.
EnterStdout(t) ==
    /\ tpc[t] = "start"
    /\ old_stdout' = [old_stdout EXCEPT ![t] = sys_stdout]
    /\ sys_stdout' = Capture("out", t)
    /\ tpc' = [tpc EXCEPT ![t] = "enter_err"]
    /\ UNCHANGED <<policyVars, heapVars, callVars, sideVars, sys_stderr, old_stderr,
                   written, returned>>

\* redirect_stderr(stderr_capture).__enter__()
EnterStderr(t) ==
    /\ tpc[t] = "enter_err"
    /\ old_stderr' = [old_stderr EXCEPT ![t] = sys_stderr]
    /\ sys_stderr' = Capture("err", t)
    /\ tpc' = [tpc EXCEPT ![t] = "body"]
    /\ UNCHANGED <<policyVars, heapVars, callVars, sideVars, sys_stdout, old_stdout,
                   written, returned>>

\* print(...) in the executed program writes to what sys.stdout is now.
ProgramPrints(t) ==
    /\ tpc[t] = "body"
    /\ Printed(t) < MaxPrints
    /\ written' = [written EXCEPT ![sys_stdout][t] = @ + 1]
    /\ UNCHANGED <<policyVars, heapVars, callVars, sideVars, sys_stdout, sys_stderr, tpc,
                   old_stdout, old_stderr, returned>>

\* exec(...) returns or raises; the with block is left either way.
Finish(t, raises) ==
    /\ tpc[t] = "body"
    /\ returned' = [returned EXCEPT ![t].raised = raises]
    /\ tpc' = [tpc EXCEPT ![t] = "exit_err"]
    /\ UNCHANGED <<policyVars, heapVars, callVars, sideVars, sys_stdout, sys_stderr,
                   old_stdout, old_stderr, written>>

\* redirect_stderr.__exit__(): sys.stderr = the remembered stream
ExitStderr(t) ==
    /\ tpc[t] = "exit_err"
    /\ sys_stderr' = old_stderr[t]
    /\ tpc' = [tpc EXCEPT ![t] = "exit_out"]
    /\ UNCHANGED <<policyVars, heapVars, callVars, sideVars, sys_stdout, old_stdout,
                   old_stderr, written, returned>>

\* redirect_stdout.__exit__(): sys.stdout = the remembered stream
ExitStdout(t) ==
    /\ tpc[t] = "exit_out"
    /\ sys_stdout' = old_stdout[t]
    /\ tpc' = [tpc EXCEPT ![t] = "return"]
    /\ UNCHANGED <<policyVars, heapVars, callVars, sideVars, sys_stderr, old_stdout,
                   old_stderr, written, returned>>

\* except Exception: raise -- the caller gets the exception and nothing of
\* the two StringIO objects; otherwise
\* return exec_namespace, stdout_capture.getvalue(), stderr_capture.getvalue()
ReturnExecute(t) ==
    /\ tpc[t] = "return"
    /\ returned' =
          IF returned[t].raised
          THEN [returned EXCEPT ![t].done = TRUE]
          ELSE [returned EXCEPT ![t].done = TRUE,
                                ![t].stdout = written[Capture("out", t)],
                                ![t].stderr = written[Capture("err", t)]]
    /\ tpc' = [tpc EXCEPT ![t] = "done"]
    /\ UNCHANGED <<policyVars, heapVars, callVars, sideVars, sys_stdout, sys_stderr,
                   old_stdout, old_stderr, written>>

ConcNext ==
    \E t \in Threads :
        \/ EnterStdout(t)
        \/ EnterStderr(t)
        \/ ProgramPrints(t)
        \/ \E r \in BOOLEAN : Finish(t, r)
        \/ ExitStderr(t)
        \/ ExitStdout(t)
        \/ ReturnExecute(t)

ConcSpec == Init /\ [][ConcNext]_vars

\* ------------------------------------------------------- TDDWorkflowState
\* Step numbers a caller can pass, valid or not.
StepArgs == 0..(NumSteps + 1)

\* validation_result arguments of mark_step_complete
ValidationResults == {None, "valid"}

\* code arguments of set_step_code
Codes == {"code"}

\* can_advance_to_next_step without the validation_result test.
can_advance_completed_only(step, status) ==
    IF step >= NumSteps THEN FALSE
    ELSE status[step].completed

\* TDDWorkflowState.can_advance_to_next_step
can_advance_to_next_step(step, status) ==
    IF step >= NumSteps THEN FALSE
    ELSE status[step].completed /\ status[step].validation_result # None

Called(op, arg, value) ==
    /\ wf_ops < MaxOps
    /\ wf_ops' = wf_ops + 1
    /\ wf_ret' = [op |-> op, arg |-> arg, value |-> value]
    /\ UNCHANGED notWfVars

\* TDDWorkflowState.from_dict(data) on the stored dict of a workflow whose
\* steps below k were completed and advanced through one after the other.
from_dict(k) ==
    /\ wf_ops = 0
    /\ wf_ret = NoReturn
    /\ current_step' = k
    /\ step_status' =
          [i \in Steps |->
              IF i < k
              THEN [InitialStatus(i) EXCEPT !.completed = TRUE,
                                           !.locked = FALSE,
                                           !.validation_result = "valid",
                                           !.attempts = 1]
              ELSE [InitialStatus(i) EXCEPT !.locked = i > k]]
    /\ wf_ret' = [op |-> "from_dict", arg |-> k, value |-> TRUE]
    /\ UNCHANGED <<notWfVars, wf_ops>>

\* advance_to_next_step leaving the step it moves to locked.
advance_without_unlock ==
    IF ~can_advance_to_next_step(current_step, step_status)
    THEN /\ Called("advance_to_next_step", 0, FALSE)
         /\ UNCHANGED <<current_step, step_status>>
    ELSE /\ Called("advance_to_next_step", 0, TRUE)
         /\ current_step' = current_step + 1
         /\ UNCHANGED step_status

\* TDDWorkflowState.advance_to_next_step
advance_to_next_step ==
    IF ~can_advance_to_next_step(current_step, step_status)
    THEN /\ Called("advance_to_next_step", 0, FALSE)
         /\ UNCHANGED <<current_step, step_status>>
    ELSE /\ Called("advance_to_next_step", 0, TRUE)
         /\ current_step' = current_step + 1
         /\ step_status' = [step_status EXCEPT ![current_step + 1].locked = FALSE]

\* go_back_to_step accepting every step number of the workflow.
go_back_to_step_any_step(step_num) ==
    IF step_num < 1 \/ step_num > NumSteps
    THEN /\ Called("go_back_to_step", step_num, FALSE)
         /\ UNCHANGED <<current_step, step_status>>
    ELSE /\ Called("go_back_to_step", step_num, TRUE)
         /\ current_step' = step_num
         /\ UNCHANGED step_status

\* TDDWorkflowState.go_back_to_step
go_back_to_step(step_num) ==
    IF step_num < 1 \/ step_num > current_step
    THEN /\ Called("go_back_to_step", step_num, FALSE)
         /\ UNCHANGED <<current_step, step_status>>
    ELSE /\ Called("go_back_to_step", step_num, TRUE)
         /\ current_step' = step_num
         /\ UNCHANGED step_status

\* TDDWorkflowState.mark_step_complete
mark_step_complete(step_num, validation_result) ==
    /\ Called("mark_step_complete", step_num, FALSE)
    /\ UNCHANGED current_step
    /\ IF step_num \notin DOMAIN step_status
       THEN UNCHANGED step_status
       ELSE step_status' =
                [step_status EXCEPT
                    ![step_num].completed = TRUE,
                    ![step_num].validation_result = validation_result,
                    ![step_num].attempts = @ + 1]

\* TDDWorkflowState.set_step_code
set_step_code(step_num, code) ==
    /\ Called("set_step_code", step_num, FALSE)
    /\ UNCHANGED current_step
    /\ IF step_num \in DOMAIN step_status
       THEN step_status' = [step_status EXCEPT ![step_num].code = code]
       ELSE UNCHANGED step_status

WorkflowNext ==
    \/ \E k \in Steps : from_dict(k)
    \/ advance_to_next_step
    \/ \E n \in StepArgs : go_back_to_step(n)
    \/ \E n \in StepArgs, v \in ValidationResults : mark_step_complete(n, v)
    \/ \E n \in StepArgs, c \in Codes : set_step_code(n, c)

WorkflowSpec == Init /\ [][WorkflowNext]_vars

\* ------------------------------------------------- WorkflowProgress calls
\* WorkflowProgress after mark_step_complete(1), ..., mark_step_complete(k).
RECURSIVE MarkedThrough(_)
MarkedThrough(k) ==
    IF k = 0 THEN NewProgress
    ELSE WorkflowProgress_mark_step_complete(MarkedThrough(k - 1), k, "valid").self

\* One method call on the progress object: counted, its outcome recorded.
ProgressCalled(op, arg, out) ==
    /\ pr_ops < MaxProgressOps
    /\ pr_ops' = pr_ops + 1
    /\ progress' = out.self
    /\ pr_ret' = [op |-> op, arg |-> arg, raised |-> out.raised,
                  reloaded |-> pr_ret.reloaded]
    /\ UNCHANGED <<stored, saved, notPrVars>>

\* WorkflowProgress.from_dict(progress.to_dict()) of a learner who has
\* completed steps 1..k in order: the session resumes there.
resume_progress(k) ==
    /\ pr_ops = 0
    /\ pr_ret = NoProgressReturn
    /\ progress' = WorkflowProgress_from_dict(
                       WorkflowProgress_to_dict(MarkedThrough(k)))
    /\ pr_ret' = [NoProgressReturn EXCEPT !.op = "from_dict", !.arg = k]
    /\ UNCHANGED <<stored, saved, pr_ops, notPrVars>>

progress_mark_step_complete(step_num, validation_result) ==
    ProgressCalled("mark_step_complete", step_num,
        WorkflowProgress_mark_step_complete(progress, step_num,
                                            validation_result))

progress_set_step_code(step_num, code) ==
    ProgressCalled("set_step_code", step_num,
        WorkflowProgress_set_step_code(progress, step_num, code))

progress_increment_hint_usage(step_num) ==
    ProgressCalled("increment_hint_usage", step_num,
        WorkflowProgress_increment_hint_usage(progress, step_num))

\* WorkflowStorage.save_progress(progress): json.dump(progress.to_dict()).
save_progress ==
    /\ pr_ops < MaxProgressOps
    /\ pr_ops' = pr_ops + 1
    /\ stored' = {json_roundtrip(WorkflowProgress_to_dict(progress))}
    /\ saved' = {progress}
    /\ pr_ret' = [op |-> "save_progress", arg |-> 0, raised |-> FALSE,
                  reloaded |-> pr_ret.reloaded]
    /\ UNCHANGED <<progress, notPrVars>>

\* WorkflowStorage.load_progress(user_id, workflow_id):
\* WorkflowProgress.from_dict(json.load(f)); None when no file exists.
load_progress ==
    /\ pr_ops < MaxProgressOps
    /\ pr_ops' = pr_ops + 1
    /\ \E data \in stored : progress' = WorkflowProgress_from_dict(data)
    /\ pr_ret' = [op |-> "load_progress", arg |-> 0, raised |-> FALSE,
                  reloaded |-> TRUE]
    /\ UNCHANGED <<stored, saved, notPrVars>>

ProgressNext ==
    \/ \E k \in 0..(NumSteps - 1) : resume_progress(k)
    \/ \E n \in StepArgs, v \in ValidationResults :
          progress_mark_step_complete(n, v)
    \/ \E n \in StepArgs, c \in Codes : progress_set_step_code(n, c)
    \/ \E n \in StepArgs : progress_increment_hint_usage(n)
    \/ save_progress
    \/ load_progress

ProgressSpec == Init /\ [][ProgressNext]_vars

\* ------------------------------------------------------------ CodeMetrics
\* Node classes ast.walk can yield, as far as calculate_complexity tells
\* them apart; a BoolOp carries the number of its operands.
NodeKinds == {"If", "For", "While", "ExceptHandler", "BoolOp",
              "IfExp", "AsyncFor", "Name"}
Nodes == {[kind |-> k, values |-> IF k = "BoolOp" THEN n ELSE 0] :
             k \in NodeKinds, n \in 2..MaxOperands}

\* What ast.parse(code) does with a source: a tree, or one of the
\* exceptions it raises (SyntaxError for bad syntax; RecursionError and
\* MemoryError for deep nesting, UnicodeEncodeError for a lone surrogate).
ParseOutcomes == {"ok", "SyntaxError", "RecursionError", "MemoryError",
                  "UnicodeEncodeError"}

RECURSIVE SeqsUpTo(_, _)
SeqsUpTo(S, n) ==
    IF n = 0 THEN {<<>>}
    ELSE LET shorter == SeqsUpTo(S, n - 1)
         IN  shorter \cup {Append(q, x) : q \in shorter, x \in S}

MetricSources ==
    {[parse |-> "ok", nodes |-> q] : q \in SeqsUpTo(Nodes, MaxNodes)}
    \cup {[parse |-> p, nodes |-> <<>>] : p \in ParseOutcomes \ {"ok"}}

\* The loop of calculate_complexity over ast.walk(tree), from node i on.
RECURSIVE WalkComplexity(_, _, _)
WalkComplexity(nodes, i, complexity) ==
    IF i > Len(nodes) THEN complexity
    ELSE WalkComplexity(nodes, i + 1,
            IF nodes[i].kind \in {"If", "For", "While", "ExceptHandler"}
            THEN complexity + 1
            ELSE IF nodes[i].kind = "BoolOp"
                 THEN complexity + nodes[i].values - 1
                 ELSE complexity)

\* CodeMetrics.calculate_complexity: only SyntaxError is caught.
calculate_complexity(code) ==
    IF code.parse = "SyntaxError" THEN [value |-> 0, raised |-> None]
    ELSE IF code.parse # "ok" THEN [value |-> 0, raised |-> code.parse]
    ELSE [value |-> WalkComplexity(code.nodes, 1, 1), raised |-> None]

\* Lines of a source: stripped texts "a", "b", a blank line, a comment.
LineTexts == {"a", "b", "", "#"}
LineSources == SeqsUpTo(LineTexts, MaxLines)

\* code.strip().split('\n'): blank lines at both ends go, those inside stay;
\* an all-blank source gives the one-element list [''].
RECURSIVE StripLeft(_)
StripLeft(lines) ==
    IF lines = <<>> THEN <<>>
    ELSE IF Head(lines) = "" THEN StripLeft(Tail(lines)) ELSE lines

RECURSIVE StripRight(_)
StripRight(lines) ==
    IF lines = <<>> THEN <<>>
    ELSE IF lines[Len(lines)] = ""
         THEN StripRight(SubSeq(lines, 1, Len(lines) - 1)) ELSE lines

strip_split(code) ==
    LET inner == StripRight(StripLeft(code))
    IN  IF inner = <<>> THEN <<"">> ELSE inner

Occurrences(lines, text) == Cardinality({i \in 1..Len(lines) : lines[i] = text})

RECURSIVE SumOver(_, _, _)
SumOver(S, lines, acc) ==
    IF S = {} THEN acc
    ELSE LET text == CHOOSE x \in S : TRUE
         IN  SumOver(S \ {text}, lines, acc + Occurrences(lines, text) - 1)

\* sum(count - 1 for count in line_counts.values() if count > 1)
Duplicates(lines) ==
    SumOver({lines[i] : i \in 1..Len(lines)} \ {"", "#"}, lines, 0)

Min(a, b) == IF a < b THEN a ELSE b

\* CodeMetrics.calculate_duplication, as the fraction num / den of 100
\* it returns: duplicates over len(lines), capped at one.
calculate_duplication(code) ==
    LET lines == strip_split(code)
    IN  IF Len(lines) < 2 THEN [num |-> 0, den |-> 1]
        ELSE [num |-> Min(Duplicates(lines), Len(lines)), den |-> Len(lines)]

\* One call of calculate_complexity on a fresh process: its argument and
\* what came of it.
MeasureComplexity(code) ==
    /\ metric = NoMetric
    /\ metric' = [fn |-> "calculate_complexity", code |-> code,
                  value |-> calculate_complexity(code).value,
                  raised |-> calculate_complexity(code).raised]
    /\ UNCHANGED notMetricVars

\* One call of calculate_duplication.
MeasureDuplication(code) ==
    /\ metric = NoMetric
    /\ metric' = [fn |-> "calculate_duplication", code |-> code,
                  value |-> calculate_duplication(code),
                  raised |-> None]
    /\ UNCHANGED notMetricVars

MetricsNext ==
    \/ \E code \in MetricSources : MeasureComplexity(code)
    \/ \E code \in LineSources : MeasureDuplication(code)

MetricsSpec == Init /\ [][MetricsNext]_vars

\* ------------------------------------------------ workflow endpoint calls
\* workflow_storage.load_workflow: None when the file is missing or, being
\* rewritten by another request, does not hold a whole JSON document.
Loadable == wfile.exists /\ wfile.writers = 0

\* A request ends with an HTTP status and without writing the file.
Respond(r, kind, arg, solved, status) ==
    /\ reqs' = [reqs EXCEPT ![r] =
                   [IdleRequest EXCEPT !.pc = "done", !.kind = kind,
                                       !.arg = arg, !.solved = solved,
                                       !.base = IF Loadable
                                                THEN workflow_from_dict(wfile.data)
                                                ELSE NoWorkflow,
                                       !.status = status]]
    /\ UNCHANGED wfile

\* A request has loaded the workflow and changed its own copy; the call of
\* save_workflow is still to come.
Modified(r, kind, arg, solved, workflow) ==
    /\ reqs' = [reqs EXCEPT ![r] =
                   [IdleRequest EXCEPT !.pc = "saving", !.kind = kind,
                                       !.arg = arg, !.solved = solved,
                                       !.base = workflow_from_dict(wfile.data),
                                       !.local = workflow]]
    /\ UNCHANGED wfile

Arrives(r) ==
    /\ reqs[r].pc \in {"idle", "done"}
    /\ api_ops < MaxRequests
    /\ api_ops' = api_ops + 1
    /\ UNCHANGED notApiVars

\* POST .../workflow/start: a new TDDWorkflowState saved under a new id.
start_workflow(r) ==
    /\ Arrives(r)
    /\ ~wfile.exists
    /\ wfile' = [exists |-> TRUE, writers |-> 0,
                 data |-> workflow_to_json(NewWorkflow)]
    /\ reqs' = [reqs EXCEPT ![r] =
                   [IdleRequest EXCEPT !.pc = "done", !.kind = "start",
                                       !.local = NewWorkflow,
                                       !.status = 200]]

\* POST .../validate-step up to the call of save_workflow. solved: the
\* step validator returns valid for the code and test code of the body.
validate_step(r, step, code, solved) ==
    /\ Arrives(r)
    /\ IF ~Loadable
       THEN Respond(r, "validate-step", step, solved, 404)
       ELSE LET workflow == with_step_code(workflow_from_dict(wfile.data),
                                           step, code)
            IN  IF step \notin ValidatedSteps
                THEN Respond(r, "validate-step", step, solved, 400)
                ELSE Modified(r, "validate-step", step, solved,
                        IF solved
                        THEN with_step_complete(workflow, step, "valid")
                        ELSE workflow)

\* POST .../advance up to the call of save_workflow.
advance_workflow(r) ==
    /\ Arrives(r)
    /\ IF ~Loadable
       THEN Respond(r, "advance", 0, FALSE, 404)
       ELSE LET workflow == workflow_from_dict(wfile.data)
            IN  IF ~can_advance_to_next_step(workflow.current_step,
                                             workflow.step_status)
                THEN Respond(r, "advance", 0, FALSE, 400)
                ELSE Modified(r, "advance", 0, FALSE, with_advance(workflow))

\* POST .../go-back up to the call of save_workflow.
go_back_workflow(r, target_step) ==
    /\ Arrives(r)
    /\ IF ~Loadable
       THEN Respond(r, "go-back", target_step, FALSE, 404)
       ELSE LET workflow == workflow_from_dict(wfile.data)
            IN  IF target_step < 1 \/ target_step > workflow.current_step
                THEN Respond(r, "go-back", target_step, FALSE, 400)
                ELSE Modified(r, "go-back", target_step, FALSE,
                        [workflow EXCEPT !.current_step = target_step])

\* save_workflow, open(file_path, 'w'): the file is truncated.
OpenForWrite(r) ==
    /\ reqs[r].pc = "saving"
    /\ reqs' = [reqs EXCEPT ![r].pc = "writing"]
    /\ wfile' = [wfile EXCEPT !.writers = @ + 1]
    /\ UNCHANGED <<api_ops, notApiVars>>

\* save_workflow, json.dump and close: the file holds this request's copy;
\* the handler returns 200.
save_workflow(r) ==
    /\ reqs[r].pc = "writing"
    /\ reqs' = [reqs EXCEPT ![r].pc = "done", ![r].status = 200]
    /\ wfile' = [wfile EXCEPT !.writers = @ - 1,
                              !.data = workflow_to_json(reqs[r].local)]
    /\ UNCHANGED <<api_ops, notApiVars>>

ApiNext ==
    \E r \in Requests :
        \/ start_workflow(r)
        \/ \E step \in StepArgs, code \in Codes, solved \in BOOLEAN :
              validate_step(r, step, code, solved)
        \/ advance_workflow(r)
        \/ \E target_step \in StepArgs : go_back_workflow(r, target_step)
        \/ OpenForWrite(r)
        \/ save_workflow(r)

ApiSpec == Init /\ [][ApiNext]_vars

\* ================================================================== claims
\* Entry points that follow the grading protocol (run_user_and_tests and
\* TestRunner.run_tests, directly or from a step validator).
GradingEntries == {"grade", "run_tests", "step1", "step3", "step5"}

\* C1: what the claim counts as a validation failure: an unparsable source,
\* a Global/Nonlocal/With/AsyncWith node, or an import outside the allow-list.
C1_MustBeRejected(src, owner) ==
    \/ ~src.parses
    \/ src.nodes \cap {"Global", "Nonlocal", "With", "AsyncWith"} # {}
    \/ \E s \in src.imports :
          \/ s.module \notin DOMAIN ALLOWED_IMPORTS[owner]
          \/ /\ s.kind = "from"
             /\ ALLOWED_IMPORTS[owner][s.module] # AllSymbols
             /\ ~(s.names \subseteq ALLOWED_IMPORTS[owner][s.module])

\* C1 (deny before run): when the submission source must be rejected, the
\* call has executed neither the submission nor the grader source and has not
\* invoked grade; once validation has run, the call has failed.
C1_DenyBeforeRun ==
    (entry # None /\ C1_MustBeRejected(UserSource[user_code], Owner(entry)))
        => /\ execs = << >>
           /\ gradeArg = None
           /\ raw = None
           /\ InRan("Validating") => pc = "Failed"

C1_Witness ==
    /\ pc = "Failed"
    /\ failure = "PolicyViolation"
    /\ user_code = "import_os"
    /\ InRan("Validating")
    /\ execs = << >>

\* C2 (runtime gate refines the validator): every __import__ call of the
\* submission whose import statement the validator rejects is refused by
\* restricted_import. Violated by the code.
C2_GateRefusesWhatValidatorRefuses ==
    \A g \in gate :
        ImportRejected(StatementOf(g.name, g.fromlist),
                       ALLOWED_IMPORTS[Owner(entry)]) => ~g.permitted

\* C3 (trust boundary): learner-authored source is executed only after
\* validation and with the restricted import gate; the unrestricted import
\* primitive only ever serves operator-authored source. Violated by the code.
C3_LearnerSourceSandboxed ==
    \A i \in 1..Len(execs) :
        /\ execs[i].author = "learner"
              => execs[i].validated /\ execs[i].import = "restricted"
        /\ execs[i].import = "unrestricted" => execs[i].author = "operator"

\* C4 (score bound): a returned grade satisfies 0 <= score <= max_score.
\* Violated by the code, which does not clamp.
C4_ScoreBound ==
    (result.returned /\ result.success /\ failure = None
        /\ entry \in GradingEntries)
        => 0 <= result.score /\ result.score <= result.max_score

\* C5 (timeout): a submission that has run past timeout_seconds has been
\* cancelled and the call has ended in TimeoutExceeded. Violated by the code.
C5_TimeoutEnforced ==
    elapsed > timeout_seconds => pc = "Failed" /\ failure = "TimeoutExceeded"

PhaseOrder == <<"Validating", "ExecutingSubmission", "ExecutingGrader",
                "CheckingEntrypoint", "Invoking", "Normalizing">>

C6_Inv ==
    entry \in GradingEntries =>
        \* the phases run so far are a prefix of the protocol order, followed
        \* at most by the enrichment of run_user_and_tests
        /\ \A i \in 1..Len(ran) :
              IF i <= Len(PhaseOrder) THEN ran[i] = PhaseOrder[i]
              ELSE i = Len(PhaseOrder) + 1 /\ ran[i] = "Enriching"
        \* a grade is returned only after every phase has run
        /\ pc = "Done" => Len(ran) >= Len(PhaseOrder)
        /\ (result.returned /\ failure = None) => Len(ran) >= Len(PhaseOrder)
        \* a failed run_user_and_tests returns nothing; nowhere does a failed
        \* call carry a score taken from the grader
        /\ pc = "Failed" =>
              /\ entry = "grade" => ~result.returned
              /\ result.score = DefaultScore \/ ~result.returned
        \* grade is invoked with the submission namespace
        /\ InRan("Invoking") => gradeArg = user_ns /\ user_ns # None
        /\ gradeArg # None => InRan("Invoking") /\ gradeArg # test_ns

C6_Step ==
    pc = "Failed" => \/ pc' = "Failed" /\ ran' = ran /\ execs' = execs
                     \/ pc' = "Idle"

C7_MissingEntrypoint ==
    (entry \in GradingEntries /\ InRan("CheckingEntrypoint")
        /\ ("grade" \notin nss[test_ns].binds
            \/ "grade" \notin nss[test_ns].callables))
        => /\ pc = "Failed"
           /\ failure = "ContractViolation"
           /\ gradeArg = None
           /\ raw = None
           /\ ~result.success
           /\ entry = "grade" => ~result.returned
           /\ result.returned => result.score = DefaultScore

C7_Witness ==
    /\ pc = "Failed"
    /\ failure = "ContractViolation"
    /\ tests_code = "not_callable"
    /\ "grade" \in nss[test_ns].binds
    /\ gradeArg = None

\* C8 (namespace isolation): the submission and grader namespaces and their
\* __builtins__ mappings are distinct objects, the grader's __builtins__ is
\* not a shared table, and the submission's bindings are not copied into the
\* grader namespace. Violated by the code (run_test_suite).
C8_NamespacesIsolated ==
    (user_ns # None /\ test_ns # None /\ test_ns \in DOMAIN nss) =>
        /\ user_ns # test_ns
        /\ nss[user_ns].builtins # nss[test_ns].builtins
        /\ nss[test_ns].builtins \notin {TableId(o) : o \in Owners}
        /\ nss[user_ns].binds \cap TestsSource[tests_code].binds = {}
        /\ nss[test_ns].binds \cap UserSource[user_code].binds = {}

\* C9 (concurrent output capture): every execute call that returned normally
\* returned exactly what its own program printed, and when all calls are over
\* sys.stdout and sys.stderr are the streams they were before. Violated by
\* the code.
C9_StreamsIsolatedAndRestored ==
    /\ \A t \in Threads :
          (returned[t].done /\ ~returned[t].raised) =>
              /\ returned[t].stdout =
                     [u \in Threads |-> IF u = t THEN Printed(t) ELSE 0]
              /\ returned[t].stderr = Nothing
    /\ (\A t \in Threads : tpc[t] = "done") =>
          sys_stdout = Console("out") /\ sys_stderr = Console("err")

\* C10 (fixed policy): no step of any grading call changes the disallowed
\* node set, the import allow-list or the SAFE_BUILTINS tables, so a source
\* gets the same verdict whenever it is validated. Violated by the code.
C10_PolicyFixed ==
    [][/\ DISALLOWED_NODES' = DISALLOWED_NODES
       /\ ALLOWED_IMPORTS' = ALLOWED_IMPORTS
       /\ \A o \in Owners : SAFE_BUILTINS(o)' = SAFE_BUILTINS(o)
       /\ \A u \in UserSources, o \in Owners :
             validate_source(UserSource[u], o)' = validate_source(UserSource[u], o)
      ]_vars

\* Node kinds of try/except, raise, lambda, attribute access and decorators,
\* with the function definitions and names they appear in.
C11_BenignNodes == {"FunctionDef", "Return", "Pass", "Try", "ExceptHandler",
                    "Raise", "Lambda", "Attribute", "Name", "Call"}

\* C11: the three causes the claim lists for a policy violation.
C11_Violates(src, allowed) ==
    \/ src.nodes \cap {"Global", "Nonlocal", "With", "AsyncWith"} # {}
    \/ \E s \in src.imports :
          /\ s.kind = "import"
          /\ s.module \notin DOMAIN allowed
    \/ \E s \in src.imports :
          /\ s.kind = "from"
          /\ \/ s.module \notin DOMAIN allowed
             \/ /\ allowed[s.module] # AllSymbols
                /\ \E x \in s.names : x \notin allowed[s.module]

\* C11 (validator verdict): validate_source / Sandbox.validate_code rejects a
\* parseable source with a policy violation exactly when its tree has a
\* Global, Nonlocal, With or AsyncWith node, an import of a module outside
\* the allow-list, or a from-import of a module outside the allow-list or of
\* a symbol outside the module's restrictive symbol set; a source of only
\* try/except, raise, lambda, attribute access and decorators is accepted;
\* and a grading call that has validated its submission has failed with the
\* policy violation exactly in these cases.
C11_ValidatorVerdict ==
    /\ \A u \in UserSources, o \in Owners :
          LET src == UserSource[u]
          IN  src.parses =>
                /\ validate_source(src, o) = "PolicyViolation"
                      <=> C11_Violates(src, ALLOWED_IMPORTS[o])
                /\ validate_source(src, o) = "ok"
                      <=> ~C11_Violates(src, ALLOWED_IMPORTS[o])
                /\ (src.nodes \subseteq C11_BenignNodes /\ src.imports = {})
                      => validate_source(src, o) = "ok"
    /\ (entry # None /\ InRan("Validating") /\ UserSource[user_code].parses)
          => (failure = "PolicyViolation"
                <=> C11_Violates(UserSource[user_code],
                                 ALLOWED_IMPORTS[Owner(entry)]))

C11_Witness ==
    /\ pc = "Failed"
    /\ failure = "PolicyViolation"
    /\ entry = "run_tests"
    /\ user_code = "from_partial"
    /\ InRan("Validating")

\* Exception types a submission or a learner-written test can raise.
C12_LearnerExceptions ==
    {UserSource[u].exc : u \in UserSources} \cup
    {TestsSource[t].exc : t \in TestsSources} \cup {"ImportError"}

\* C12 (failure kinds distinguishable by cause): a failed call is reported
\* as a validation failure only when the validator rejected the submission,
\* an exception raised while running submission or grader code is reported
\* with its own exception type and not as a validation failure, and a
\* missing entrypoint is reported under a label no learner-caused exception
\* is reported under. Violated by the code.
C12_FailureKindsDistinct ==
    (pc = "Failed" /\ entry \in GradingEntries /\ failure # "StepRejected") =>
        /\ reported.label = "Validation Error"
              => failure \in {"SyntaxInvalid", "PolicyViolation"}
        \* (a grader source that does not compile is reported as SyntaxError)
        /\ (failure = "ExecutionError" /\ reported.exc # "SyntaxError")
              => reported.label = "error" /\ reported.exc # None
        /\ failure = "ContractViolation"
              => reported.label \notin
                     {ErrorLabel(entry, x) : x \in C12_LearnerExceptions}

\* C13 (output preserved on error): when the executed source raised, what
\* was written to the call's stdout / stderr captures before the exception
\* is handed to the caller with the error. Violated by the code.
C13_OutputPreservedOnError ==
    \A t \in Threads :
        (returned[t].done /\ returned[t].raised) =>
            /\ returned[t].stdout = written[Capture("out", t)]
            /\ returned[t].stderr = written[Capture("err", t)]

\* C14 (expected results only below max): a returned grade carries
\* expected_results for a function only if its score is strictly below
\* max_score, and then only for the name the scan files them under; when
\* score >= max_score the grader source was not scanned and no function
\* carries expected_results.
C14_ExpectedOnlyBelowMax ==
    (entry = "grade" /\ result.returned) =>
        LET functions == result.execution_results.functions
            t == TestsSource[tests_code]
        IN  /\ \A n \in DOMAIN functions :
                  functions[n].expected_results
                      => /\ result.score < result.max_score
                         /\ result.scanned
                         /\ t.has_expected /\ n = t.expected_for
            /\ result.score >= result.max_score
                  => /\ ~result.scanned
                     /\ \A n \in DOMAIN functions :
                           ~functions[n].expected_results

C14_Witness ==
    /\ pc = "Done"
    /\ entry = "grade"
    /\ tests_code = "partial"
    /\ result.returned /\ result.scanned
    /\ result.score < result.max_score
    /\ "f" \in DOMAIN result.execution_results.functions
    /\ result.execution_results.functions["f"].expected_results

\* C15 (probe isolation): once probing has run, the call has not failed:
\* every binding of the submission that is not skipped has been processed
\* and the grade is returned with the normalized score. Violated by the code.
C15_ProbeContained ==
    (entry = "grade" /\ InRan("Enriching")) =>
        LET defs == UserSource[user_code].defs
            results == result.execution_results
        IN  /\ pc = "Done" /\ failure = None
            /\ result.returned
            /\ result.score = NormalizedScore(TestsSource[raw])
            /\ \A i \in 1..Len(defs) :
                  ~defs[i].dunder =>
                      defs[i].name \in DOMAIN results.functions
                                        \cup results.classes
                                        \cup results.variables

\* C16 (refactor step): validate_step_5 returns valid only if the refactored
\* code was graded without failure at the full score and its metrics show
\* complexity not above the previous code's, or a docstring, or a type hint.
\* Violated by the code.
C16_RefactorAcceptedOnlyIfImproved ==
    (entry = "step5" /\ step_result.returned /\ step_result.valid) =>
        LET previous == get_metrics_summary(UserSource[previous_code])
            refactored == get_metrics_summary(UserSource[user_code])
        IN  /\ failure = None
            /\ result.success
            /\ result.score >= result.max_score
            /\ \/ refactored.complexity <= previous.complexity
               \/ refactored.has_docstring
               \/ refactored.has_type_hints

\* C17 (green step): validate_step_3 returns valid exactly when grading
\* completed without error and awarded the full score; otherwise valid is
\* False and an error is recorded. Violated by the code.
C17_Step3ValidIffTestPasses ==
    (entry = "step3" /\ step_result.returned) =>
        /\ step_result.valid
              <=> /\ pc = "Done" /\ failure = None
                  /\ result.success
                  /\ result.score >= result.max_score
        /\ ~step_result.valid => step_result.errors # {}

\* C18 (red step): validate_step_1 returns valid, with test_fails, only for
\* test code that parses, defines a test_ function, contains an assert and
\* whose test fails against the empty submission; a test that passes
\* against the empty submission is rejected with an error. Violated by the
\* code.
C18_Step1AcceptsOnlyFailingTests ==
    (entry = "step1" /\ step_result.returned) =>
        LET t == TestsSource[tests_code]
        IN  /\ step_result.valid
                  => /\ step_result.test_fails
                     /\ t.parses /\ t.test_fn /\ t.asserts
                     /\ ~t.test_passes
            /\ t.test_passes
                  => ~step_result.valid /\ step_result.errors # {}

\* C19 (advance): advance_to_next_step returns True exactly when
\* current_step < 6 and the current step is completed with a validation
\* result that is not None; it then adds exactly 1 to current_step and
\* unlocks the new current step, touching nothing else; otherwise it returns
\* False and current_step and every step's status stay as they were.
C19_Advance ==
    [][(wf_ops' = wf_ops + 1 /\ wf_ret'.op = "advance_to_next_step") =>
          LET ok == /\ current_step < NumSteps
                    /\ step_status[current_step].completed
                    /\ step_status[current_step].validation_result # None
          IN  /\ wf_ret'.value = ok
              /\ ok => /\ current_step' = current_step + 1
                       /\ ~step_status'[current_step'].locked
                       /\ step_status' =
                              [step_status EXCEPT ![current_step'].locked = FALSE]
              /\ ~ok => /\ current_step' = current_step
                        /\ step_status' = step_status
      ]_vars

C19_Witness ==
    /\ wf_ret.op = "advance_to_next_step"
    /\ wf_ret.value
    /\ current_step = NumSteps
    /\ ~step_status[NumSteps].locked
    /\ step_status[NumSteps - 1].completed

\* C20 (go back): go_back_to_step(n) returns True exactly when
\* 1 <= n <= current_step; it then sets current_step to n; otherwise it
\* returns False and current_step is unchanged; either way every step's
\* completed, locked, code, validation_result and attempts are unchanged.
C20_GoBack ==
    [][(wf_ops' = wf_ops + 1 /\ wf_ret'.op = "go_back_to_step") =>
          LET n == wf_ret'.arg
              ok == 1 <= n /\ n <= current_step
          IN  /\ wf_ret'.value = ok
              /\ current_step' = IF ok THEN n ELSE current_step
              /\ step_status' = step_status
      ]_vars

C20_Witness ==
    /\ wf_ret = [op |-> "go_back_to_step", arg |-> 1, value |-> TRUE]
    /\ current_step = 1
    /\ ~step_status[3].locked
    /\ step_status[2].completed

\* C21: a WorkflowProgress saved with save_progress and reloaded with
\* load_progress is equivalent to the original: its to_dict() is equal to
\* that of the saved object, and mark_step_complete, increment_hint_usage
\* and set_step_code calls for a step 1..6 on the reloaded object succeed.
C21_ReloadEquivalent ==
    /\ pr_ret.op = "load_progress" =>
          \A original \in saved :
              WorkflowProgress_to_dict(progress) =
                  WorkflowProgress_to_dict(original)
    /\ (/\ pr_ret.reloaded
        /\ pr_ret.op \in {"mark_step_complete", "increment_hint_usage",
                          "set_step_code"}
        /\ pr_ret.arg \in Steps) => ~pr_ret.raised

\* C25: after any sequence of mark_step_complete calls, including calls
\* that raise for a step number outside 1..6, is_complete() is True if and
\* only if every one of steps 1..6 has been marked complete.
C25_CompleteIffAllSix ==
    is_complete(progress) <=>
        \A i \in Steps : InList(i, progress.steps_completed)

\* C22: calculate_complexity returns 1 + the number of if/for/while/
\* except-handler nodes + the sum over the boolean expressions of (operand
\* count - 1) for a source that parses, and returns 0 without raising for
\* a source that does not parse.
C22_NodeCount(code, kinds) ==
    Cardinality({i \in 1..Len(code.nodes) : code.nodes[i].kind \in kinds})

RECURSIVE C22_OperandSum(_, _)
C22_OperandSum(code, i) ==
    IF i > Len(code.nodes) THEN 0
    ELSE C22_OperandSum(code, i + 1)
         + (IF code.nodes[i].kind = "BoolOp"
            THEN code.nodes[i].values - 1 ELSE 0)

C22_Complexity ==
    metric.fn = "calculate_complexity" =>
        /\ metric.raised = None
        /\ metric.value =
              IF metric.code.parse = "ok"
              THEN 1 + C22_NodeCount(metric.code,
                           {"If", "For", "While", "ExceptHandler"})
                     + C22_OperandSum(metric.code, 1)
              ELSE 0

\* C23: calculate_duplication returns 100 x (sum over the distinct
\* non-blank, non-comment lines of (occurrence count - 1)) divided by the
\* number of non-blank lines, capped at 100, so that blank lines do not
\* affect the result.
C23_NonBlank(code) == Cardinality({i \in 1..Len(code) : code[i] # ""})

C23_Duplication ==
    metric.fn = "calculate_duplication" =>
        LET dups == Duplicates(metric.code)
            total == C23_NonBlank(metric.code)
        IN  IF total = 0 THEN metric.value.num = 0
            ELSE metric.value.num * total
                     = Min(dups, total) * metric.value.den

\* C24: for every callable binding of the submission that is not a class
\* and not a dunder name, probing calls the inputs of test_inputs in their
\* order, stops at the first call that returns a non-empty list / tuple or
\* a value that is no sequence, calls no later input, and records the
\* return value and arguments of the last call that returned.
C24_Returned(beh, i) == beh[i] \in {"list", "value", "empty"}

C24_StopsAt(beh) ==
    IF \E i \in 1..Len(test_inputs) : beh[i] \in {"list", "value"}
    THEN CHOOSE i \in 1..Len(test_inputs) :
            /\ beh[i] \in {"list", "value"}
            /\ \A j \in 1..(i - 1) : beh[j] \notin {"list", "value"}
    ELSE Len(test_inputs)

C24_LastReturned(beh, k) ==
    IF \E i \in 1..k : C24_Returned(beh, i)
    THEN CHOOSE i \in 1..k :
            /\ C24_Returned(beh, i)
            /\ \A j \in (i + 1)..k : ~C24_Returned(beh, j)
    ELSE 0

C24_ProbeOrder ==
    (entry = "grade" /\ InRan("Enriching")) =>
        LET defs == UserSource[user_code].defs
            functions == result.execution_results.functions
        IN  \A i \in 1..Len(defs) :
               (~defs[i].dunder /\ defs[i].kind = "function") =>
                  /\ defs[i].name \in DOMAIN functions
                  /\ LET info == functions[defs[i].name]
                         k == C24_StopsAt(defs[i].beh)
                     IN  /\ info.invoked = [j \in 1..k |-> j]
                         /\ info.return_input
                               = C24_LastReturned(defs[i].beh, k)

\* C26: after any sequence of advance_to_next_step, go_back_to_step,
\* mark_step_complete and set_step_code calls, current_step is within 1..6,
\* every step up to current_step is unlocked, and no call locks a step
\* that was unlocked.
C26_Reached ==
    /\ 1 <= current_step /\ current_step <= NumSteps
    /\ \A i \in Steps : i <= current_step => ~step_status[i].locked

C26_Unlocked ==
    /\ C26_Reached
    /\ [][/\ C26_Reached'
          /\ \A i \in Steps : ~step_status[i].locked
                                 => ~step_status'[i].locked]_vars

\* A learner has advanced and gone back: a step above current_step is
\* unlocked.
C26_Witness ==
    /\ wf_ret.op = "go_back_to_step" /\ wf_ret.value
    /\ \E i \in Steps : i > current_step /\ ~step_status[i].locked

\* C27: a step is never marked completed while it is still locked: the
\* stored workflow records completion only for steps the learner has
\* reached (every step up to the highest current_step is unlocked, every
\* step above it is locked).
C27_CompletedOnlyIfReached ==
    wfile.exists =>
        LET workflow == workflow_from_dict(wfile.data)
        IN  \A i \in Steps : workflow.step_status[i].completed
                                 => ~workflow.step_status[i].locked

\* C28: with the endpoints alone a learner can take the workflow from step
\* 1 to step 6: at every step k < 6 a validate-step request for step k
\* whose submission satisfies the step completes it, so that advance moves
\* current_step to k + 1.
C28_StepCanBeCompleted ==
    \A r \in Requests :
        (/\ reqs[r].pc = "done" /\ reqs[r].kind = "validate-step"
         /\ reqs[r].solved
         /\ reqs[r].base.current_step \in 1..(NumSteps - 1)
         /\ reqs[r].arg = reqs[r].base.current_step)
        => /\ reqs[r].status = 200
           /\ can_advance_to_next_step(reqs[r].local.current_step,
                                       reqs[r].local.step_status)

\* What the endpoints allow instead: the stored current_step never
\* exceeds 2, since no request completes step 2.
C28_NeverPastStepTwo ==
    wfile.exists => workflow_from_dict(wfile.data).current_step <= 2

\* C29: when requests for the same workflow run concurrently, each as
\* load, modify, save, no effect of another request is lost: a save
\* changes in the stored workflow only what its own request changed
\* (current_step, and per step the completion, code and lock).
C29_NoLostUpdate ==
    [][\A r \in Requests :
          (reqs[r].pc = "writing" /\ reqs'[r].pc = "done") =>
              LET before == workflow_from_dict(wfile.data)
                  after == workflow_from_dict(wfile'.data)
                  base == reqs[r].base
                  local == reqs[r].local
              IN  /\ local.current_step = base.current_step
                        => after.current_step = before.current_step
                  /\ \A i \in Steps :
                        local.step_status[i] = base.step_status[i]
                            => after.step_status[i] = before.step_status[i]]_vars

\* C30: for a module whose allow-list entry lists the permitted symbols
\* (functools, time), a submission that has passed validation and run
\* holds only those symbols: neither an import statement nor an __import__
\* call has given it the module itself.
C30_OnlyListedSymbols ==
    pc = "ExecutingGrader" =>
        \A m \in ModulesHeld(UserSource[user_code], gate) :
            m \in DOMAIN ALLOWED_IMPORTS[Owner(entry)]
                => ALLOWED_IMPORTS[Owner(entry)][m] = AllSymbols
====
